---- MODULE Spec2Model ----
(***************************************************************************)
(* A model of the zombie/human cellular automaton: the per-cell transition *)
(* ZombieState::new_cell_state (src/src/zombie_state.rs), the initial grid *)
(* built by setup_map (src/src/main.rs) and the synchronous tick that the  *)
(* CellularAutomatonPlugin drives over the Moore neighbourhood.            *)
(*                                                                         *)
(* Populations and smells stay far below 2^31 within the bounds of the     *)
(* model, so i32 arithmetic is modelled by unbounded integers.             *)
(***************************************************************************)
EXTENDS Integers, Sequences, FiniteSets, TLC

VARIABLES
    grid,      \* Spec, SpecPar: the published cell states, position -> ZombieState
    ticks,     \* Spec, SpecPar: number of ticks published so far
    next,      \* SpecPar: the states computed so far in the running tick
    fself,     \* SpecFn: the cell handed to new_cell_state
    fnbrs,     \* SpecFn: the neighbour sequence handed to new_cell_state
    fout,      \* SpecFn: <<>> before the call, <<next state>> after it returned
    fpc        \* "idle" (unused), "call", "returned", "panicked"

vars == <<grid, ticks, next, fself, fnbrs, fout, fpc>>

----------------------------------------------------------------------------
(* Bounds of the model *)

Width == 3
Height == 3
MaxTicks == 3
MaxOccupied == 3
MaxVaried == 2
ParOccupied == 1

----------------------------------------------------------------------------
(* Status and small helpers *)

Empty == "Empty"
Zombie == "Zombie"
Human == "Human"
Status == {Empty, Zombie, Human}

is_empty(s) == s = Empty
is_human(s) == s = Human
is_zombie(s) == s = Zombie

\* Ordering, as returned by Ord::cmp
Cmp(a, b) == IF a < b THEN "Less" ELSE IF a > b THEN "Greater" ELSE "Equal"
Reverse(o) == IF o = "Less" THEN "Greater" ELSE IF o = "Greater" THEN "Less" ELSE "Equal"

\* i32 division truncates toward zero
Abs(a) == IF a < 0 THEN -a ELSE a
TruncDiv(a, b) ==
    IF (a >= 0 /\ b > 0) \/ (a <= 0 /\ b < 0)
    THEN Abs(a) \div Abs(b)
    ELSE -(Abs(a) \div Abs(b))

\* IVec2 subtraction and addition
VSub(a, b) == <<a[1] - b[1], a[2] - b[2]>>
VAdd(a, b) == <<a[1] + b[1], a[2] + b[2]>>

\* Option<i8>::None
NoneDir == -1

delta_to_direction(delta) ==
    CASE delta = <<0, -1>> -> 0
      [] delta = <<1, -1>> -> 1
      [] delta = <<1, 0>> -> 2
      [] delta = <<1, 1>> -> 3
      [] delta = <<0, 1>> -> 4
      [] delta = <<-1, 1>> -> 5
      [] delta = <<-1, 0>> -> 6
      [] delta = <<-1, -1>> -> 7
      [] delta = <<0, 0>> -> 8
      [] OTHER -> NoneDir

\* The struct ZombieState
ZombieState(xy, altitude, temperature, status, population, direction, sh, sz) ==
    [xy |-> xy, altitude |-> altitude, temperature |-> temperature,
     status |-> status, population |-> population, direction |-> direction,
     smell_human |-> sh, smell_zombie |-> sz]

\* impl From<Vec<i32>> for ZombieState
FromVec(vec) ==
    ZombieState(<<vec[1], vec[2]>>, vec[3], vec[4],
                CASE vec[5] = 1 -> Zombie [] vec[5] = 2 -> Human [] OTHER -> Empty,
                vec[6], vec[7], vec[8], vec[9])

----------------------------------------------------------------------------
(* Sample::mul_amp for i32 with an f32 amplitude: the population is        *)
(* converted to f32 (p / 2^31), multiplied by the f32 nearest to 1.01      *)
(* (8472494 * 2^-23 = 1 + 83886 * 2^-23), rounded to a 24-bit significand  *)
(* (ties to even), scaled back by 2^31 and truncated toward zero.          *)
(* The product p * 83886 is kept as high * 2^10 + low so that no           *)
(* intermediate value leaves 32 bits; the arithmetic is exact for          *)
(* populations below 2^21, which the f32 conversion represents exactly.    *)

F32FractionBits == 23
AmpFraction == 83886
SplitBits == 10

RECURSIVE Pow2(_)
Pow2(n) == IF n = 0 THEN 1 ELSE 2 * Pow2(n - 1)

RECURSIVE Log2Floor(_)
Log2Floor(n) == IF n < 2 THEN 0 ELSE 1 + Log2Floor(n \div 2)

mul_amp_abs(p) ==
    LET low0 == p * (AmpFraction % Pow2(SplitBits))
        high == p * (AmpFraction \div Pow2(SplitBits)) + low0 \div Pow2(SplitBits)
        low == low0 % Pow2(SplitBits)
        \* p * AmpFraction = high * 2^SplitBits + low
        e == Log2Floor(p + high \div Pow2(F32FractionBits - SplitBits))
        fl == IF e >= SplitBits THEN high \div Pow2(e - SplitBits)
              ELSE (high * Pow2(SplitBits) + low) \div Pow2(e)
        rem == IF e >= SplitBits
               THEN (high % Pow2(e - SplitBits)) * Pow2(SplitBits) + low
               ELSE (high * Pow2(SplitBits) + low) % Pow2(e)
        half == IF e = 0 THEN 1 ELSE Pow2(e - 1)
        rounded == IF e > 0 /\ (rem > half \/ (rem = half /\ fl % 2 = 1))
                   THEN fl + 1 ELSE fl
    IN  p + rounded \div Pow2(F32FractionBits - e)

\* A birth rate applied after an integer division: population / 100 * 101
mul_amp_div_first(p) == TruncDiv(p, 100) * 101

mul_amp(p) ==
    IF p = 0 THEN 0 ELSE IF p > 0 THEN mul_amp_abs(p) ELSE -mul_amp_abs(-p)

----------------------------------------------------------------------------
(* ZombieState::new_cell_state *)

RECURSIVE SumUpTo(_, _, _)
\* the sum of a field over the first n elements of s
SumUpTo(s, n, field) ==
    IF n = 0 THEN 0 ELSE SumUpTo(s, n - 1, field) + s[n][field]

\* neighbors.iter().map(f).sum(), f selecting a field
SumOf(s, field) == SumUpTo(s, Len(s), field)

\* the delta taken from the cell to the neighbour instead
PointsAtReversed(neighbor, self) ==
    neighbor.direction = delta_to_direction(VSub(neighbor.xy, self.xy))

\* Does this neighbour's direction point from the neighbour at the cell?
PointsAt(neighbor, self) ==
    neighbor.direction = delta_to_direction(VSub(self.xy, neighbor.xy))

RECURSIVE incoming_upto(_, _, _, _)
\* the population the first n neighbours send into the cell for one faction
incoming_upto(self, neighbors, n, faction) ==
    IF n = 0 THEN 0
    ELSE incoming_upto(self, neighbors, n - 1, faction)
         + (IF PointsAt(neighbors[n], self) /\ neighbors[n].status = faction
            THEN neighbors[n].population ELSE 0)

\* the population the neighbours of one faction send into the cell
incoming(self, neighbors, faction) ==
    incoming_upto(self, neighbors, Len(neighbors), faction)

incoming_humans(self, neighbors) == incoming(self, neighbors, Human)
incoming_zombies(self, neighbors) == incoming(self, neighbors, Zombie)

total_humans(self, neighbors) ==
    incoming_humans(self, neighbors)
    + (IF is_human(self.status) /\ self.direction = 8 THEN self.population ELSE 0)

total_zombies(self, neighbors) ==
    incoming_zombies(self, neighbors)
    + (IF is_zombie(self.status) /\ self.direction = 8 THEN self.population ELSE 0)

\* an Empty cell taken by the sum of the two totals
FightEmptyAdds(th, tz) ==
    CASE Cmp(th, tz) = "Greater" -> [status |-> Human, population |-> th + tz]
      [] Cmp(th, tz) = "Less" -> [status |-> Zombie, population |-> tz + th]
      [] OTHER -> [status |-> Empty, population |-> 0]

\* the Status::Empty arm: the cell goes to the larger population
FightEmpty(th, tz) ==
    CASE Cmp(th, tz) = "Greater" -> [status |-> Human, population |-> th - tz]
      [] Cmp(th, tz) = "Less" -> [status |-> Zombie, population |-> tz - th]
      [] OTHER -> [status |-> Empty, population |-> 0]

\* a Zombie cell that holds without the infected third of the humans
FightZombieNoInfection(self, th, tz) ==
    CASE Cmp(th, tz) = "Greater" -> [status |-> Human, population |-> th - tz]
      [] Cmp(th, tz) = "Less" -> [status |-> self.status, population |-> tz - th]
      [] OTHER -> [status |-> Empty, population |-> 0]

\* the Status::Zombie arm: can the humans take the cell?
FightZombie(self, th, tz) ==
    CASE Cmp(th, tz) = "Greater" -> [status |-> Human, population |-> th - tz]
      [] Cmp(th, tz) = "Less" ->
           [status |-> self.status, population |-> tz - th + TruncDiv(th, 3)]
      [] OTHER -> [status |-> Empty, population |-> 0]

\* a Human cell that fights without the holder's advantage
FightHumanNoAdvantage(self, th, tz) ==
    CASE Cmp(th, tz) = "Greater" -> [status |-> self.status, population |-> th - tz]
      [] Cmp(th, tz) = "Less" ->
           [status |-> Zombie, population |-> tz - th + TruncDiv(th, 3)]
      [] OTHER -> [status |-> Empty, population |-> 0]

\* a lost Human cell left with the difference the holding branch computes
FightHumanSameDifference(self, th, tz) ==
    CASE Cmp(th, TruncDiv(tz, 3)) = "Greater" ->
           [status |-> self.status, population |-> th - TruncDiv(tz, 3)]
      [] Cmp(th, TruncDiv(tz, 3)) = "Less" ->
           [status |-> Zombie, population |-> th - TruncDiv(tz, 3)]
      [] OTHER -> [status |-> Empty, population |-> 0]

\* the Status::Human arm: the holder's advantage of 1 to 3
FightHuman(self, th, tz) ==
    CASE Cmp(th, TruncDiv(tz, 3)) = "Greater" ->
           [status |-> self.status, population |-> th - TruncDiv(tz, 3)]
      [] Cmp(th, TruncDiv(tz, 3)) = "Less" ->
           [status |-> Zombie, population |-> tz - th * 3 + TruncDiv(th, 3)]
      [] OTHER -> [status |-> Empty, population |-> 0]

\* "Fight!": the match on new_state.status; yields the status and population
Fight(self, th, tz) ==
    CASE self.status = Empty -> FightEmpty(th, tz)
      [] self.status = Zombie -> FightZombie(self, th, tz)
      [] OTHER -> FightHuman(self, th, tz)

\* "if new_state.population == 0 { new_state.status = Status::Empty }"
Normalize(f) ==
    IF f.population = 0 THEN [f EXCEPT !.status = Empty] ELSE f

\* the warn! diagnostic is emitted
NegativePopulation(self, neighbors) ==
    Normalize(Fight(self, total_humans(self, neighbors),
                    total_zombies(self, neighbors))).population < 0

\* "if new_state.status.is_human() { population = population.mul_amp(1.01) }"
Grow(f) ==
    IF is_human(f.status) THEN [f EXCEPT !.population = mul_amp(f.population)] ELSE f

\* status and population after combat and normalization, before growth
PostCombat(self, neighbors) ==
    Normalize(Fight(self, total_humans(self, neighbors), total_zombies(self, neighbors)))

\* a smell averaged over eight neighbours whatever their number
new_smell_human_over_8(self, neighbors) ==
    TruncDiv(SumOf(neighbors, "smell_human"), 8)
    + (IF is_human(self.status) THEN self.population ELSE 0)

new_smell_human(self, neighbors) ==
    TruncDiv(SumOf(neighbors, "smell_human"), Len(neighbors))
    + (IF is_human(self.status) THEN self.population ELSE 0)

\* a zombie smell from which the cell's own population is subtracted
new_smell_zombie_minus_own(self, neighbors) ==
    TruncDiv(SumOf(neighbors, "smell_zombie"), Len(neighbors))
    - (IF is_zombie(self.status) THEN self.population ELSE 0)

new_smell_zombie(self, neighbors) ==
    TruncDiv(SumOf(neighbors, "smell_zombie"), Len(neighbors))
    + (IF is_zombie(self.status) THEN self.population ELSE 0)

\* zombies that prefer the warmer of two places smelling alike
zombie_compare_warm(n1, n2) ==
    LET bySmell == Cmp(n1.smell_human, n2.smell_human)
        byTemp == Cmp(n1.temperature, n2.temperature)
    IN  IF bySmell = "Equal"
        THEN IF byTemp = "Equal"
             THEN Reverse(Cmp(n1.altitude, n2.altitude))
             ELSE byTemp
        ELSE bySmell

\* the comparator of the Zombie arm's max_by
zombie_compare(n1, n2) ==
    LET bySmell == Cmp(n1.smell_human, n2.smell_human)
        byTemp == Cmp(n1.temperature, n2.temperature)
    IN  IF bySmell = "Equal"
        THEN IF byTemp = "Equal"
             THEN Reverse(Cmp(n1.altitude, n2.altitude))
             ELSE Reverse(byTemp)
        ELSE bySmell

\* humans that prefer the place with more zombie smell
human_compare_smelly(n1, n2) ==
    LET bySmell == Cmp(n1.smell_zombie, n2.smell_zombie)
        byTemp == Cmp(n1.temperature, n2.temperature)
    IN  IF bySmell = "Equal"
        THEN IF byTemp = "Equal"
             THEN Cmp(n1.altitude, n2.altitude)
             ELSE byTemp
        ELSE bySmell

\* the comparator of the Human arm's max_by
human_compare(n1, n2) ==
    LET bySmell == Cmp(n1.smell_zombie, n2.smell_zombie)
        byTemp == Cmp(n1.temperature, n2.temperature)
    IN  IF bySmell = "Equal"
        THEN IF byTemp = "Equal"
             THEN Cmp(n1.altitude, n2.altitude)
             ELSE byTemp
        ELSE Reverse(bySmell)

compare(faction, n1, n2) ==
    IF faction = Zombie THEN zombie_compare(n1, n2) ELSE human_compare(n1, n2)

RECURSIVE first_improving(_, _, _)
\* a greedy scan that settles for the first neighbour better than the first
first_improving(s, n, faction) ==
    IF n = 1 THEN s[1]
    ELSE LET x == first_improving(s, n - 1, faction)
         IN  IF x # s[1] THEN x
             ELSE IF compare(faction, s[n], s[1]) = "Greater" THEN s[n] ELSE s[1]

RECURSIVE max_by_upto(_, _, _)
\* the fold of max_by over the first n elements of s (n >= 1): the
\* accumulated element is kept only when it compares Greater
max_by_upto(s, n, faction) ==
    IF n = 1 THEN s[1]
    ELSE LET x == max_by_upto(s, n - 1, faction)
         IN  IF compare(faction, x, s[n]) = "Greater" THEN x ELSE s[n]

\* Iterator::max_by on a non-empty sequence (the last maximum wins)
max_by(s, faction) == max_by_upto(s, Len(s), faction)

preferred_neighbor(neighbors, faction) == max_by(neighbors, faction)

preferred_neighbor_zombie_population(pn) ==
    IF is_zombie(pn.status) THEN pn.population ELSE 0

\* a retreat that does not ask whether the preferred neighbour is Zombie-held
human_moves_any_retreat(pn, population, smell_zombie) ==
    \/ TruncDiv(population, 3) > preferred_neighbor_zombie_population(pn)
    \/ pn.smell_zombie < smell_zombie

\* the condition under which a Human cell moves to its preferred neighbour pn
human_moves(pn, population, smell_zombie) ==
    \/ TruncDiv(population, 3) > preferred_neighbor_zombie_population(pn)
    \/ (~is_zombie(pn.status) /\ pn.smell_zombie < smell_zombie)

\* a direction that is not reset to 8 before the match on the new status
new_direction_no_reset(self, neighbors, status, population, smell_zombie) ==
    CASE status = Zombie ->
           delta_to_direction(VSub(preferred_neighbor(neighbors, Zombie).xy, self.xy))
      [] status = Human ->
           LET pn == preferred_neighbor(neighbors, Human) IN
           IF human_moves(pn, population, smell_zombie)
           THEN delta_to_direction(VSub(pn.xy, self.xy))
           ELSE self.direction
      [] OTHER -> self.direction

\* the direction chosen for the next tick (lines 186-246)
new_direction(self, neighbors, status, population, smell_zombie) ==
    CASE status = Zombie ->
           delta_to_direction(VSub(preferred_neighbor(neighbors, Zombie).xy, self.xy))
      [] status = Human ->
           LET pn == preferred_neighbor(neighbors, Human) IN
           IF human_moves(pn, population, smell_zombie)
           THEN delta_to_direction(VSub(pn.xy, self.xy))
           ELSE 8
      [] OTHER -> 8

\* a lookup miss that is taken for "no direction" instead of unwrapped
UnwrapsNoneNever(self, neighbors) == FALSE

\* delta_to_direction(..).unwrap() on None (line 59): some neighbour's delta
\* is not in the direction table
UnwrapsNone(self, neighbors) ==
    \E i \in 1..Len(neighbors) :
       delta_to_direction(VSub(self.xy, neighbors[i].xy)) = NoneDir

\* the division by neighbors.len() (lines 170-171) when there is no neighbour
DividesByZero(neighbors) == Len(neighbors) = 0

\* The call panics
Panics(self, neighbors) ==
    UnwrapsNone(self, neighbors) \/ DividesByZero(neighbors)

\* a next state built on ZombieState::default() instead of self.clone()
new_cell_state_from_default(self, neighbors) ==
    LET fought == Grow(PostCombat(self, neighbors))
        sh == new_smell_human(self, neighbors)
        sz == new_smell_zombie(self, neighbors)
    IN  ZombieState(<<0, 0>>, 0, 0, fought.status, fought.population,
                    new_direction(self, neighbors, fought.status,
                                  fought.population, sz),
                    sh, sz)

new_cell_state(self, neighbors) ==
    LET fought == Grow(PostCombat(self, neighbors))
        sh == new_smell_human(self, neighbors)
        sz == new_smell_zombie(self, neighbors)
    IN  [self EXCEPT
            !.status = fought.status,
            !.population = fought.population,
            !.smell_human = sh,
            !.smell_zombie = sz,
            !.direction = new_direction(self, neighbors, fought.status,
                                        fought.population, sz)]

----------------------------------------------------------------------------
(* The grid: MooreCell2d cells spawned by setup_map *)

Pos == (0..(Width - 1)) \X (0..(Height - 1))

\* MooreCell2d's neighbour coordinates, in the order the plugin visits them
NEIGHBOR_COORDINATES ==
    << <<-1, 0>>, <<-1, 1>>, <<0, 1>>, <<1, 1>>,
       <<1, 0>>, <<1, -1>>, <<0, -1>>, <<-1, -1>> >>

InGrid(p) == p \in Pos

\* the positions of the neighbours that exist (no wraparound), per position
NeighborPosOf ==
    [p \in Pos |->
        SelectSeq([i \in 1..Len(NEIGHBOR_COORDINATES) |->
                      VAdd(p, NEIGHBOR_COORDINATES[i])], InGrid)]

NeighborPos(p) == NeighborPosOf[p]

\* the neighbour states of p in grid g
NeighborSeq(g, p) ==
    LET ps == NeighborPos(p) IN [i \in 1..Len(ps) |-> g[ps[i]]]

\* TerrainGenerator::new(42).generate(..): one fixed (altitude, temperature)
\* pair per coordinate; the model takes this map for it
Terrain(x, y) == <<(x + 2 * y) % 3, (x + y) % 2>>

\* the value of rand::random::<u8>() a cell draws for its population: the
\* model takes one byte per coordinate out of the 256 the program may draw
RandomByte(x, y) == (99 + 57 * x + 101 * y) % 256

\* gen_at_location[4]: the status code chosen from random_state
StatusCode(random_state) ==
    CASE random_state = 0 -> 0
      [] random_state = 1 -> 1
      [] random_state = 2 -> 2
      [] OTHER -> 0

\* gen_at_location[5]: the population for a status code and a random byte
InitialPopulation(code, byte) ==
    IF code = 2 THEN (byte % 100) + 50
    ELSE IF code = 1 THEN (byte % 10) + 1
    ELSE 0

\* a cell spawned with "no direction" (8) in place of the 0 of vec![0; 9]
gen_at_location_staying(x, y, random_state, byte) ==
    FromVec(<<x, y, Terrain(x, y)[1], Terrain(x, y)[2],
              StatusCode(random_state),
              InitialPopulation(StatusCode(random_state), byte), 8, 0, 0>>)

\* the state setup_map spawns at (x, y)
gen_at_location(x, y, random_state, byte) ==
    FromVec(<<x, y, Terrain(x, y)[1], Terrain(x, y)[2],
              StatusCode(random_state),
              InitialPopulation(StatusCode(random_state), byte), 0, 0, 0>>)

\* the cells that draw a Zombie or Human status: at most n of them
OccupiedSets(n) == { o \in SUBSET Pos : Cardinality(o) <= n }

\* the grid setup_map spawns when the cells of f draw the random_state f
\* gives them and every other cell draws random_state e
SpawnedGrid(f, e) ==
    [p \in Pos |->
        gen_at_location(p[1], p[2], IF p \in DOMAIN f THEN f[p] ELSE e,
                        RandomByte(p[1], p[2]))]

\* setup_map with at most n cells drawing a Zombie or Human status
SetupMap(n) ==
    \E occ \in OccupiedSets(n), e \in {0, 3} :
       \E f \in [occ -> {1, 2}] :
          grid = SpawnedGrid(f, e)

NoCell == [xy |-> <<0, 0>>]
NoBuffer == <<>>

Init ==
    /\ SetupMap(MaxOccupied)
    /\ ticks = 0
    /\ next = NoBuffer
    /\ fself = NoCell
    /\ fnbrs = <<>>
    /\ fout = <<>>
    /\ fpc = "idle"

\* the grid one synchronous step after g
Step(g) == [p \in Pos |-> new_cell_state(g[p], NeighborSeq(g, p))]

\* one tick of the plugin: every cell's next state is computed from the
\* current states and all of them are published together
Tick ==
    /\ fpc = "idle"
    /\ ticks < MaxTicks
    /\ \A p \in Pos : ~Panics(grid[p], NeighborSeq(grid, p))
    /\ grid' = Step(grid)
    /\ ticks' = ticks + 1
    /\ UNCHANGED <<next, fself, fnbrs, fout, fpc>>

Next == Tick

Spec == Init /\ [][Next]_vars

----------------------------------------------------------------------------
(* new_cell_state as a function: a cell and a neighbour sequence drawn     *)
(* from bounded sets, and one call                                         *)

\* the block the function's inputs are laid out in: a corner, an edge and an
\* interior cell have 3, 5 and 8 neighbours
Block == (0..2) \X (0..2)
FnPositions == { <<0, 0>>, <<1, 0>>, <<1, 1>> }

InBlock(p) == p \in Block

BlockNeighborPos(p) ==
    LET all == [i \in 1..Len(NEIGHBOR_COORDINATES) |-> VAdd(p, NEIGHBOR_COORDINATES[i])]
    IN  SelectSeq(all, InBlock)

\* the cells handed in as self: <<status, population, direction>>
SelfKinds ==
    { <<Empty, 0, 8>>,
      <<Zombie, 5, 8>>, <<Zombie, 10, 8>>, <<Zombie, 5, 0>>,
      <<Human, 10, 8>>, <<Human, 13, 8>>, <<Human, 100, 8>>, <<Human, 10, 2>> }

SelfCell(p, k) == ZombieState(p, 1, 1, k[1], k[2], k[3], 7, 7)

\* what a neighbour smells and lies like:
\* <<smell_human, smell_zombie, temperature, altitude>>
BaseScent == <<3, 3, 1, 1>>
QuietScent == <<0, 0, 1, 1>>
Scents ==
    { BaseScent,
      <<0, 3, 1, 1>>, <<8, 3, 1, 1>>, <<3, 0, 1, 1>>, <<3, 8, 1, 1>>,
      <<3, 3, 0, 1>>, <<3, 3, 2, 1>>, <<3, 3, 1, 0>>, <<3, 3, 1, 2>> }
MovingScents == { BaseScent, <<3, 0, 1, 1>> }

\* what a neighbour does: <<status, population, does it point at self>>
Staying == { <<Empty, 0, FALSE>>, <<Zombie, 4, FALSE>> }
Moving ==
    { <<Zombie, 4, TRUE>>, <<Zombie, 10, TRUE>>, <<Zombie, 40, TRUE>>,
      <<Human, 10, TRUE>>, <<Human, 20, TRUE>> }

\* the neighbours that may depart from the base neighbour
NeighborKinds == (Staying \X Scents) \cup (Moving \X MovingScents)

NeighborCell(q, selfxy, m, sc) ==
    ZombieState(q, sc[4], sc[3], m[1], m[2],
                IF m[3] THEN delta_to_direction(VSub(selfxy, q)) ELSE 8,
                sc[1], sc[2])

\* the neighbour that neither moves nor is occupied, with the given scent
BaseNeighbor(q, selfxy, scent) ==
    NeighborCell(q, selfxy, <<Empty, 0, FALSE>>, scent)

\* how many neighbours may depart from the base neighbour: up to MaxVaried
\* of the three of a corner cell, one of the five or eight of the others
VariedLimit(n) == IF n <= 3 THEN MaxVaried ELSE 1

\* the sets of positions (indices of the neighbour sequence) that may depart
VariedSets(n) == { v \in SUBSET (1..n) : Cardinality(v) <= VariedLimit(n) }

\* the neighbour sequence around p: the base neighbour everywhere except at
\* the positions of f, which get the movement and scent f gives them
NeighborInput(p, f) ==
    LET ps == BlockNeighborPos(p) IN
    [i \in 1..Len(ps) |->
        IF i \in DOMAIN f
        THEN NeighborCell(ps[i], p, f[i][1], f[i][2])
        ELSE BaseNeighbor(ps[i], p, BaseScent)]

\* the neighbourhood in which nothing lives, moves or smells
QuietInput(p) ==
    LET ps == BlockNeighborPos(p) IN
    [i \in 1..Len(ps) |-> BaseNeighbor(ps[i], p, QuietScent)]

\* inputs the call panics on: no neighbour at all (a single-cell grid), and
\* a neighbour that is not adjacent to the cell
DegenerateInputs(p) ==
    { <<>>,
      <<BaseNeighbor(VAdd(p, <<1, 0>>), p, QuietScent),
        BaseNeighbor(VAdd(p, <<2, 0>>), p, QuietScent)>> }

\* a populated neighbour on its way to another cell than self: its direction
\* is the one that points at self, turned by turn eighths of a circle
PassingNeighbor(q, selfxy, m, turn) ==
    [NeighborCell(q, selfxy, m, BaseScent) EXCEPT
        !.direction = (delta_to_direction(VSub(selfxy, q)) + turn) % 8]

\* neighbourhoods in which the first neighbour passes by and the last one
\* sends ten humans to self
PassingInputs(p) ==
    LET ps == BlockNeighborPos(p) IN
    { [i \in 1..Len(ps) |->
          IF i = 1 THEN PassingNeighbor(ps[i], p, m, turn)
          ELSE IF i = Len(ps) THEN NeighborCell(ps[i], p, <<Human, 10, TRUE>>, BaseScent)
          ELSE BaseNeighbor(ps[i], p, BaseScent)] :
      m \in { <<Zombie, 4, TRUE>>, <<Human, 10, TRUE>> }, turn \in {1, 4} }

\* Human cells grown large (nothing caps the 1% growth per tick), handed in
\* with the quiet neighbourhood
LargeKinds == { <<Human, 1000, 8>>, <<Human, 259599, 8>>, <<Human, 1000000, 8>> }

InitFn ==
    /\ \/ \E p \in FnPositions, k \in SelfKinds :
             /\ fself = SelfCell(p, k)
             /\ \/ \E varied \in VariedSets(Len(BlockNeighborPos(p))) :
                      \E f \in [varied -> NeighborKinds] :
                         fnbrs = NeighborInput(p, f)
                \/ fnbrs = QuietInput(p)
                \/ fnbrs \in PassingInputs(p)
                \/ fnbrs \in DegenerateInputs(p)
       \/ \E p \in FnPositions, k \in LargeKinds :
             /\ fself = SelfCell(p, k)
             /\ fnbrs = QuietInput(p)
    /\ fout = <<>>
    /\ fpc = "call"
    /\ grid = <<>>
    /\ ticks = 0
    /\ next = NoBuffer

\* the call returns the next state
Call ==
    /\ fpc = "call"
    /\ ~Panics(fself, fnbrs)
    /\ fout' = <<new_cell_state(fself, fnbrs)>>
    /\ fpc' = "returned"
    /\ UNCHANGED <<grid, ticks, next, fself, fnbrs>>

\* the call panics and returns nothing
CallPanics ==
    /\ fpc = "call"
    /\ Panics(fself, fnbrs)
    /\ fpc' = "panicked"
    /\ UNCHANGED <<grid, ticks, next, fself, fnbrs, fout>>

NextFn == Call \/ CallPanics

SpecFn == InitFn /\ [][NextFn]_vars

----------------------------------------------------------------------------
(* The tick batch by batch: under SimulationBatch the plugin evaluates the *)
(* cells in parallel batches, in any order, collects the new states and     *)
(* applies them together once every cell has been evaluated. A batch of the *)
(* model is one row of the grid (the cells are spawned row by row).         *)

\* the states an evaluation reads while the buffer nxt is being filled
VisibleInPlace(g, nxt) == [p \in Pos |-> IF p \in DOMAIN nxt THEN nxt[p] ELSE g[p]]

Visible(g, nxt) == g

\* the cells of batch y
Batch(y) == { p \in Pos : p[2] = y }

InitPar ==
    /\ SetupMap(ParOccupied)
    /\ ticks = 0
    /\ next = NoBuffer
    /\ fself = NoCell
    /\ fnbrs = <<>>
    /\ fout = <<>>
    /\ fpc = "idle"

\* the cells of one batch are evaluated and their new states are buffered
Eval(y) ==
    /\ ticks < MaxTicks
    /\ Batch(y) \cap DOMAIN next = {}
    /\ LET seen == Visible(grid, next) IN
          /\ \A c \in Batch(y) : ~Panics(seen[c], NeighborSeq(seen, c))
          /\ next' = [p \in (DOMAIN next) \cup Batch(y) |->
                        IF p \in Batch(y)
                        THEN new_cell_state(seen[p], NeighborSeq(seen, p))
                        ELSE next[p]]
    /\ UNCHANGED <<grid, ticks, fself, fnbrs, fout, fpc>>

\* every cell has been evaluated: the buffer becomes the grid
Publish ==
    /\ DOMAIN next = Pos
    /\ grid' = [p \in Pos |-> next[p]]
    /\ next' = NoBuffer
    /\ ticks' = ticks + 1
    /\ UNCHANGED <<fself, fnbrs, fout, fpc>>

NextPar == (\E y \in 0..(Height - 1) : Eval(y)) \/ Publish

SpecPar == InitPar /\ [][NextPar]_vars

----------------------------------------------------------------------------
(* Properties *)

\* the result of the call, once it has returned
Returned == fpc = "returned"
Out == fout[1]

\* the totals the combat of the call is resolved on
TH == total_humans(fself, fnbrs)
TZ == total_zombies(fself, fnbrs)

\* the call resolved its combat to this status and post-combat population,
\* and returned them after the birth step
ResolvedTo(status, pop) ==
    /\ PostCombat(fself, fnbrs) = [status |-> status, population |-> pop]
    /\ Out.status = status
    /\ Out.population = Grow([status |-> status, population |-> pop]).population

\* C1: in the initial grid and after every tick, every cell has population 0
\* exactly when its status is Empty.
C1_PopulationZeroIffEmpty ==
    \A p \in Pos : (grid[p].population = 0) <=> (grid[p].status = Empty)

\* C1 witness: after a tick the grid holds an Empty, a Zombie and a Human cell
C1_Witness ==
    /\ ticks >= 1
    /\ \E p \in Pos : grid[p].status = Empty
    /\ \E p \in Pos : grid[p].status = Zombie /\ grid[p].population > 0
    /\ \E p \in Pos : grid[p].status = Human /\ grid[p].population > 0

\* C2: a Human cell compares total_humans with floor(total_zombies / 3): if
\* greater it stays Human with post-combat population
\* total_humans - floor(total_zombies / 3); if less it becomes Zombie with
\* population total_zombies - 3 * total_humans + floor(total_humans / 3); if
\* equal it becomes Empty with population 0.
C2_HumanCombat ==
    (Returned /\ fself.status = Human) =>
        /\ TH > TZ \div 3 => ResolvedTo(Human, TH - TZ \div 3)
        /\ TH < TZ \div 3 => ResolvedTo(Zombie, TZ - 3 * TH + TH \div 3)
        /\ TH = TZ \div 3 => ResolvedTo(Empty, 0)

\* C2 witness: Human 10 that stayed, 40 incoming zombies -> Zombie, population 13
C2_Witness ==
    /\ Returned
    /\ fself.status = Human /\ fself.population = 10 /\ fself.direction = 8
    /\ TH = 10 /\ TZ = 40
    /\ Out.status = Zombie /\ Out.population = 13

\* C3: a Zombie cell flips to Human with population
\* total_humans - total_zombies if total_humans > total_zombies; stays Zombie
\* with population total_zombies - total_humans + floor(total_humans / 3) if
\* total_humans < total_zombies; becomes Empty with population 0 if equal.
C3_ZombieCombat ==
    (Returned /\ fself.status = Zombie) =>
        /\ TH > TZ => ResolvedTo(Human, TH - TZ)
        /\ TH < TZ => ResolvedTo(Zombie, TZ - TH + TH \div 3)
        /\ TH = TZ => ResolvedTo(Empty, 0)

\* C3 witness: Zombie 5 that stayed, 20 incoming humans -> Human, population 15
C3_Witness ==
    /\ Returned
    /\ fself.status = Zombie /\ fself.population = 5 /\ fself.direction = 8
    /\ TH = 20 /\ TZ = 5
    /\ Out.status = Human /\ Out.population = 15

\* C4: an Empty cell is taken by the faction with the strictly larger total,
\* with population |total_humans - total_zombies| before the birth step; equal
\* totals leave it Empty with population 0.
C4_EmptyCombat ==
    (Returned /\ fself.status = Empty) =>
        /\ TH > TZ => ResolvedTo(Human, TH - TZ)
        /\ TH < TZ => ResolvedTo(Zombie, TZ - TH)
        /\ TH = TZ => ResolvedTo(Empty, 0)

\* C4 witness: an Empty cell receiving Human 10 and Zombie 4 -> Human, population 6
C4_Witness ==
    /\ Returned
    /\ fself.status = Empty
    /\ TH = 10 /\ TZ = 4
    /\ Out.status = Human /\ Out.population = 6

\* C5: within a tick every cell's next state is computed from the states
\* published before the tick, never from a state computed in the same tick,
\* so whatever the order of evaluation the grid published at the end of the
\* tick is the synchronous step of the grid before it.
C5_PublishedIsSynchronousStep ==
    [][/\ \A c \in DOMAIN next' :
             next'[c] = IF c \in DOMAIN next THEN next[c]
                        ELSE new_cell_state(grid[c], NeighborSeq(grid, c))
       /\ (ticks' = ticks + 1) => (grid' = Step(grid))]_vars

\* C5 witness: mid-tick, a cell has been evaluated to a different state while
\* one of its neighbours, which the tick changes too, is still to be evaluated
C5_Witness ==
    \E c \in DOMAIN next : \E i \in 1..Len(NeighborPos(c)) :
        /\ next[c] # grid[c]
        /\ NeighborPos(c)[i] \notin DOMAIN next
        /\ grid[NeighborPos(c)[i]] # Step(grid)[NeighborPos(c)[i]]

\* the direction code that points from the cell of the call at neighbour n
DirectionTo(n) == delta_to_direction(VSub(n.xy, fself.xy))

\* C6: an isolated Human cell, population 100, direction 8, all neighbours
\* Empty with zero smell and none pointing at it, has direction 8 after the
\* tick.
C6_IsolatedHumanStays ==
    (/\ Returned
     /\ fself.status = Human /\ fself.population = 100 /\ fself.direction = 8
     /\ \A i \in 1..Len(fnbrs) :
           /\ fnbrs[i].status = Empty /\ fnbrs[i].population = 0
           /\ fnbrs[i].smell_human = 0 /\ fnbrs[i].smell_zombie = 0
           /\ ~PointsAt(fnbrs[i], fself))
    => Out.direction = 8

\* C7: when the new status is Human, the new direction points at the
\* preferred neighbour if and only if floor(new population / 3) exceeds the
\* preferred neighbour's population if it is Zombie (else 0), or the preferred
\* neighbour is not Zombie and its smell_zombie is below the new
\* smell_zombie; otherwise the new direction is 8.
C7_HumanMoveCondition ==
    (Returned /\ Out.status = Human) =>
        LET pn == preferred_neighbor(fnbrs, Human)
            attack == Out.population \div 3 >
                        (IF pn.status = Zombie THEN pn.population ELSE 0)
            retreat == pn.status # Zombie /\ pn.smell_zombie < Out.smell_zombie
        IN  /\ (Out.direction = DirectionTo(pn)) <=> (attack \/ retreat)
            /\ ~(attack \/ retreat) => Out.direction = 8

\* C7 witness: a Human cell stays (direction 8) in front of a preferred
\* neighbour that is Zombie-held, too strong to attack and smelling less of
\* zombies than the cell
C7_Witness ==
    /\ Returned /\ Out.status = Human /\ Out.direction = 8
    /\ preferred_neighbor(fnbrs, Human).status = Zombie
    /\ preferred_neighbor(fnbrs, Human).population >= Out.population \div 3
    /\ preferred_neighbor(fnbrs, Human).smell_zombie < Out.smell_zombie

\* n1 is strictly better than n2 for a Zombie: more human smell, then colder,
\* then lower
ZombiePrefers(n1, n2) ==
    \/ n1.smell_human > n2.smell_human
    \/ n1.smell_human = n2.smell_human /\ n1.temperature < n2.temperature
    \/ /\ n1.smell_human = n2.smell_human /\ n1.temperature = n2.temperature
       /\ n1.altitude < n2.altitude

\* n1 is strictly better than n2 for a Human: less zombie smell, then warmer,
\* then higher
HumanPrefers(n1, n2) ==
    \/ n1.smell_zombie < n2.smell_zombie
    \/ n1.smell_zombie = n2.smell_zombie /\ n1.temperature > n2.temperature
    \/ /\ n1.smell_zombie = n2.smell_zombie /\ n1.temperature = n2.temperature
       /\ n1.altitude > n2.altitude

\* C8: when the new status is Zombie, the new direction is the code (0..7) of
\* the delta to a neighbour that no neighbour beats by (highest smell_human,
\* then lowest temperature, then lowest altitude); it is never 8.
C8_ZombieDirection ==
    (Returned /\ Out.status = Zombie) =>
        /\ Out.direction \in 0..7
        /\ \E i \in 1..Len(fnbrs) :
              /\ Out.direction = DirectionTo(fnbrs[i])
              /\ \A j \in 1..Len(fnbrs) : ~ZombiePrefers(fnbrs[j], fnbrs[i])

\* C8 witness: a Zombie cell heads for the colder of two neighbours that
\* smell alike and more than the others
C8_Witness ==
    /\ Returned /\ Out.status = Zombie
    /\ \E i, j \in 1..Len(fnbrs) :
          /\ Out.direction = DirectionTo(fnbrs[i])
          /\ fnbrs[j].smell_human = fnbrs[i].smell_human
          /\ fnbrs[j].temperature > fnbrs[i].temperature
          /\ \E k \in 1..Len(fnbrs) : fnbrs[k].smell_human < fnbrs[i].smell_human

\* C9: when the new status is Human, the preferred neighbour, the only
\* candidate move target, is one that no neighbour beats by (lowest
\* smell_zombie, then highest temperature, then highest altitude).
C9_HumanPreferredNeighbor ==
    (Returned /\ Out.status = Human) =>
        /\ \A j \in 1..Len(fnbrs) :
              ~HumanPrefers(fnbrs[j], preferred_neighbor(fnbrs, Human))
        /\ Out.direction # 8 =>
              \E i \in 1..Len(fnbrs) :
                 /\ Out.direction = DirectionTo(fnbrs[i])
                 /\ \A j \in 1..Len(fnbrs) : ~HumanPrefers(fnbrs[j], fnbrs[i])

\* C9 witness: a Human cell moves to the neighbour with the least zombie
\* smell although another neighbour is warmer
C9_Witness ==
    /\ Returned /\ Out.status = Human
    /\ \E i, j \in 1..Len(fnbrs) :
          /\ Out.direction = DirectionTo(fnbrs[i])
          /\ fnbrs[i].smell_zombie < fnbrs[j].smell_zombie
          /\ fnbrs[i].temperature < fnbrs[j].temperature

\* C10: after a tick smell_human is floor(sum of the neighbours' smell_human
\* / number of neighbours present) plus the cell's pre-tick population if its
\* pre-tick status is Human, and likewise smell_zombie with Zombie; the
\* divisor is the number of neighbours present (3, 5 or 8).
C10_SmellDiffusion ==
    Returned =>
        /\ Out.smell_human =
              SumOf(fnbrs, "smell_human") \div Len(fnbrs)
              + (IF fself.status = Human THEN fself.population ELSE 0)
        /\ Out.smell_zombie =
              SumOf(fnbrs, "smell_zombie") \div Len(fnbrs)
              + (IF fself.status = Zombie THEN fself.population ELSE 0)

\* C10 witness: a corner cell whose three neighbours' smells average to
\* another value over 3 than over 8
C10_Witness ==
    /\ Returned /\ Len(fnbrs) = 3
    /\ SumOf(fnbrs, "smell_human") \div 3 # SumOf(fnbrs, "smell_human") \div 8
    /\ fself.status = Human
    /\ Out.smell_human = SumOf(fnbrs, "smell_human") \div 3 + fself.population

\* the delta a direction code 0..7 stands for, clockwise from North = (0, -1)
DirectionDelta(d) ==
    << <<0, -1>>, <<1, -1>>, <<1, 0>>, <<1, 1>>,
       <<0, 1>>, <<-1, 1>>, <<-1, 0>>, <<-1, -1>> >>[d + 1]

\* the one position the population of cell n is sent to: its own when its
\* direction is 8, else its position plus the delta of its direction
Destination(n) ==
    IF n.direction = 8 THEN n.xy ELSE VAdd(n.xy, DirectionDelta(n.direction))

RECURSIVE SentHereUpTo(_, _)
\* the population the first k neighbours of the call send to its cell, for
\* one faction
SentHereUpTo(k, faction) ==
    IF k = 0 THEN 0
    ELSE SentHereUpTo(k - 1, faction)
         + (IF fnbrs[k].status = faction /\ Destination(fnbrs[k]) = fself.xy
            THEN fnbrs[k].population ELSE 0)

\* the population of one faction whose destination is the cell of the call
SentHere(faction) ==
    (IF fself.status = faction /\ Destination(fself) = fself.xy
     THEN fself.population ELSE 0)
    + SentHereUpTo(Len(fnbrs), faction)

\* C11: in any tick each cell's pre-tick population is counted in the combat
\* totals of at most one cell, its destination: its own cell (in the total of
\* its own faction) if its direction is 8, the cell at its position plus the
\* delta of its direction d in 0..7 otherwise, and not its own cell then; a
\* neighbour whose direction does not point at a cell contributes nothing to
\* it. So the totals of a cell are exactly the populations sent to it.
C11_CountedAtDestination ==
    Returned =>
        /\ TH = SentHere(Human)
        /\ TZ = SentHere(Zombie)

\* C11 witness: a Human cell that stayed is counted at its own cell together
\* with the humans a neighbour sends to it, while a populated neighbour
\* heading elsewhere is not counted
C11_Witness ==
    /\ Returned
    /\ fself.status = Human /\ fself.direction = 8 /\ fself.population = 10
    /\ \E i, j \in 1..Len(fnbrs) :
          /\ fnbrs[i].status = Human /\ fnbrs[i].population = 10
          /\ Destination(fnbrs[i]) = fself.xy
          /\ fnbrs[j].status = Human /\ fnbrs[j].population = 10
          /\ fnbrs[j].direction \in 0..7
          /\ Destination(fnbrs[j]) # fself.xy
    /\ TH = 20

\* C12: in every reachable state (the initial grid and after any number of
\* ticks) every cell's direction is in 0..8, and every cell whose status is
\* Empty in a state produced by a tick has direction 8.
C12_DirectionRange ==
    \A p \in Pos :
        /\ grid[p].direction \in 0..8
        /\ (ticks >= 1 /\ grid[p].status = Empty) => grid[p].direction = 8

\* C12 witness: a tick has produced an Empty cell with direction 8 where a
\* Human population lived before (its smell is still there), next to a Zombie
\* and a Human cell that are on the move
C12_Witness ==
    /\ ticks >= 1
    /\ \E p \in Pos :
          /\ grid[p].status = Empty /\ grid[p].direction = 8
          /\ grid[p].smell_human >= 50
    /\ \E p \in Pos : grid[p].status = Zombie /\ grid[p].direction \in 0..7
    /\ \E p \in Pos : grid[p].status = Human /\ grid[p].direction \in 0..7

\* C13: population is never negative: in every state reachable from the
\* initial grid through any number of ticks every cell has population >= 0
\* (the negative-population diagnostic of new_cell_state is taken exactly
\* when the tick leaves a negative population, the birth step keeping the
\* sign, so it is never taken).
C13_PopulationNonNegative ==
    \A p \in Pos : grid[p].population >= 0

\* C13 witness: a tick has turned a Human cell (its smell is still there)
\* into a Zombie cell with a positive population, and another cell is about to
\* resolve a fight between humans and zombies
C13_Witness ==
    /\ ticks >= 1
    /\ \E p \in Pos :
          /\ grid[p].status = Zombie /\ grid[p].population > 0
          /\ grid[p].smell_human >= 50
    /\ \E p \in Pos :
          /\ total_humans(grid[p], NeighborSeq(grid, p)) > 0
          /\ total_zombies(grid[p], NeighborSeq(grid, p)) > 0

\* C14: smell fields are never negative: in every reachable state, the
\* initial grid and every grid a tick computes from neighbours whose smells
\* are >= 0 and populations >= 0, both smells of every cell are >= 0.
C14_SmellNonNegative ==
    \A p \in Pos :
        /\ grid[p].smell_human >= 0
        /\ grid[p].smell_zombie >= 0

\* C14 witness: after two ticks an Empty cell carries both smells, which
\* reached it by diffusion, and a Zombie cell is about to add its population
\* to the zombie smell averaged from its neighbours
C14_Witness ==
    /\ ticks >= 2
    /\ \E p \in Pos :
          /\ grid[p].status = Empty
          /\ grid[p].smell_human > 0 /\ grid[p].smell_zombie > 0
    /\ \E p \in Pos :
          /\ grid[p].status = Zombie /\ grid[p].population > 0
          /\ SumOf(NeighborSeq(grid, p), "smell_zombie") > 0

\* the population a cell of the given status shows after a birth step that
\* is floor(1.01 * pop) for Human and leaves the others alone
AfterBirth(status, pop) == IF status = Human THEN (pop * 101) \div 100 ELSE pop

\* C15: whenever the status after combat resolution and normalization is
\* Human, the new population is floor(1.01 * post-combat population) (so 100
\* becomes 101 and any population below 100 is unchanged); when the resulting
\* status is Zombie or Empty no growth is applied.
C15_GrowthIsFloor ==
    Returned =>
        LET post == PostCombat(fself, fnbrs) IN
        /\ Out.population = AfterBirth(post.status, post.population)
        /\ (post.status = Human /\ post.population = 100) => Out.population = 101
        /\ (post.status = Human /\ post.population < 100) =>
              Out.population = post.population
        /\ post.status # Human => Out.population = post.population

\* the same neighbours presented in other orders
Reversed(s) == [i \in 1..Len(s) |-> s[Len(s) + 1 - i]]
Rotated(s) == [i \in 1..Len(s) |-> s[(i % Len(s)) + 1]]
Reorderings(s) == { Reversed(s), Rotated(s) }

\* two neighbours that the faction's comparator cannot tell apart
TiedFor(faction, n1, n2) ==
    /\ n1.temperature = n2.temperature
    /\ n1.altitude = n2.altitude
    /\ IF faction = Zombie THEN n1.smell_human = n2.smell_human
       ELSE n1.smell_zombie = n2.smell_zombie

\* C16 as stated: the transition is a function of the cell and the set of
\* its neighbours: the same cell and the same neighbours, presented in any
\* two orders, return the same next state, direction included.
C16_OrderIndependent ==
    Returned => \A o \in Reorderings(fnbrs) : new_cell_state(fself, o) = Out

\* C16 as amended: presented in another order, the same neighbours give the
\* same status, population, smells and fixed fields; the direction is the
\* same too unless two different neighbours tie for the preferred one, equal
\* on smell, temperature and altitude and beaten by no neighbour.
C16_OrderMattersOnlyOnTies ==
    Returned =>
        \A o \in Reorderings(fnbrs) :
            LET r == new_cell_state(fself, o) IN
            /\ [r EXCEPT !.direction = 8] = [Out EXCEPT !.direction = 8]
            /\ r.direction # Out.direction =>
                  \E i, j \in 1..Len(fnbrs) :
                     /\ i # j
                     /\ TiedFor(Out.status, fnbrs[i], fnbrs[j])
                     /\ \A k \in 1..Len(fnbrs) :
                           IF Out.status = Zombie
                           THEN ~ZombiePrefers(fnbrs[k], fnbrs[i])
                           ELSE ~HumanPrefers(fnbrs[k], fnbrs[i])

\* C16 witness: a Zombie cell that received zombies follows the one
\* neighbour that smells most of humans, and does so in every order of its
\* neighbours, which are not all alike
C16_Witness ==
    /\ Returned /\ Out.status = Zombie /\ TZ > 0
    /\ \E i \in 1..Len(fnbrs) :
          /\ Out.direction = DirectionTo(fnbrs[i])
          /\ \A j \in 1..Len(fnbrs) :
                j # i => fnbrs[j].smell_human < fnbrs[i].smell_human
    /\ \A o \in Reorderings(fnbrs) : o # fnbrs /\ new_cell_state(fself, o) = Out

\* C17: when new_cell_state is evaluated for a cell with zero neighbours
\* (degenerate single-cell grid), the scent averaging is guarded: the
\* operation does not divide by zero.
C17_ZeroNeighborsGuarded ==
    Len(fnbrs) = 0 => ~(fpc = "panicked" /\ DividesByZero(fnbrs))

\* the deltas around a cell, the adjacent ones and those one step further
Deltas == (-2..2) \X (-2..2)

\* C18: if any supplied neighbour is not adjacent to the cell (its delta from
\* the cell is not in the direction table), new_cell_state panics instead of
\* returning a next state; delta_to_direction returns a code only for the
\* eight Moore deltas (0..7, clockwise from North = (0, -1)) and for (0, 0)
\* (8), and None for every other delta.
C18_NonAdjacentPanics ==
    /\ (fpc # "call" /\ \E i \in 1..Len(fnbrs) :
                           \/ Abs(fnbrs[i].xy[1] - fself.xy[1]) > 1
                           \/ Abs(fnbrs[i].xy[2] - fself.xy[2]) > 1)
          => (fpc = "panicked" /\ fout = <<>>)
    /\ \A d \in 0..7 : delta_to_direction(DirectionDelta(d)) = d
    /\ delta_to_direction(<<0, 0>>) = 8
    /\ \A delta \in Deltas :
          (delta # <<0, 0>> /\ \A d \in 0..7 : delta # DirectionDelta(d))
             => delta_to_direction(delta) = NoneDir

\* C18 witness: a call handed an adjacent neighbour and one two steps away
\* has panicked
C18_Witness ==
    /\ fpc = "panicked"
    /\ \E i, j \in 1..Len(fnbrs) :
          /\ VSub(fnbrs[i].xy, fself.xy) = <<1, 0>>
          /\ VSub(fnbrs[j].xy, fself.xy) = <<2, 0>>

\* C19: a tick leaves each cell's position (xy), altitude and temperature
\* unchanged: for every cell and every neighbour sequence the state returned
\* by new_cell_state has the xy, altitude and temperature of the input cell.
C19_TerrainAndPositionKept ==
    Returned =>
        /\ Out.xy = fself.xy
        /\ Out.altitude = fself.altitude
        /\ Out.temperature = fself.temperature

\* C19 witness: a call away from the origin has changed the status, the
\* population, the direction and both smells of its cell
C19_Witness ==
    /\ Returned
    /\ fself.xy # <<0, 0>> /\ Out.xy = fself.xy
    /\ Out.status # fself.status /\ Out.population # fself.population
    /\ Out.direction # fself.direction
    /\ Out.smell_human # fself.smell_human
    /\ Out.smell_zombie # fself.smell_zombie

\* no cell of the neighbour sequence ns points at the cell
NobodyPointsAt(self, ns) == \A i \in 1..Len(ns) : ~PointsAt(ns[i], self)

\* C20: in every state reachable from the initial grid every Zombie cell has
\* a direction in 0..7 (never 8); so its own population is not counted as a
\* defender at its own cell, and a Zombie cell at which no neighbour's
\* direction points becomes Empty with population 0 on the next tick.
C20_ZombiesAlwaysMove ==
    \A p \in Pos :
        grid[p].status = Zombie =>
            LET ns == NeighborSeq(grid, p) IN
            /\ grid[p].direction \in 0..7
            /\ total_zombies(grid[p], ns) = incoming_zombies(grid[p], ns)
            /\ NobodyPointsAt(grid[p], ns) =>
                  /\ new_cell_state(grid[p], ns).status = Empty
                  /\ new_cell_state(grid[p], ns).population = 0

\* C20 witness: after a tick a Zombie cell at which nobody points is about
\* to become Empty, while another Zombie cell is about to receive zombies
C20_Witness ==
    /\ ticks >= 1
    /\ \E p \in Pos :
          /\ grid[p].status = Zombie /\ grid[p].population > 0
          /\ grid[p].direction \in 0..7
          /\ NobodyPointsAt(grid[p], NeighborSeq(grid, p))
          /\ new_cell_state(grid[p], NeighborSeq(grid, p)).status = Empty
    /\ \E p \in Pos :
          /\ grid[p].status = Zombie
          /\ incoming_zombies(grid[p], NeighborSeq(grid, p)) > 0

\* C21: in every state reachable from the initial grid every cell's
\* smell_human and smell_zombie lie in the documented range 0..100 (0 means
\* no smell, 100 means very strong smell).
C21_SmellRange ==
    \A p \in Pos :
        /\ grid[p].smell_human \in 0..100
        /\ grid[p].smell_zombie \in 0..100

====
